---- MODULE Spec2Model ----
(***************************************************************************)
(* Model of the route handler GET /api/users/[id]/posts                    *)
(* (src/app/api/users/[id]/posts/route.js).                                *)
(*                                                                         *)
(* The handler is an async function with two suspension points             *)
(* (await connectToDB(), await Prompt.find(..).populate(..)); the host     *)
(* runs any number of invocations concurrently.  Each invocation slot r    *)
(* walks  idle -> connect -> query -> respond -> done.  The document store *)
(* is owned by the environment, which creates, changes and deletes Items   *)
(* and Owners at any time.                                                 *)
(***************************************************************************)
EXTENDS Naturals, Sequences, FiniteSets

VARIABLES
    items,        \* the Item ("prompt") collection, in the store's natural order
    owners,       \* the Owner ("creator") collection, a set of documents
    isConnected,  \* process-wide connection flag kept by connectToDB
    nConns,       \* number of store connections opened so far
    pc,           \* pc[r]: position of invocation r inside GET
    id,           \* id[r]: params.id of invocation r
    prompts,      \* prompts[r]: the local const `prompts` of invocation r
    resp,         \* resp[r]: the Response returned by invocation r
    hist,         \* history: every content the store has had, oldest first
    qver,         \* qver[r]: index in hist of the store r's query read (or
                  \* of the store at the time r failed)
    acq,          \* acq[r]: outcome of r's connectToDB ("none", "ok", "fail")
    qres,         \* qres[r]: outcome of r's query ("none", "ok", "fail")
    issued,       \* issued[r]: number of queries r has sent to the store
    nresp         \* nresp[r]: number of Responses r has returned

vars == <<items, owners, isConnected, nConns, pc, id, prompts, resp,
          hist, qver, acq, qres, issued, nresp>>

storeVars == <<items, owners, hist>>
connVars  == <<isConnected, nConns>>

----------------------------------------------------------------------------
(* Bounds *)

MaxItems  == 3      \* most Items the collection holds
MaxWrites == 2      \* most changes the environment makes to the store

(* Universe *)

Reqs       == {"r1", "r2"}
UserIds    == {"u1", "u2"}
ItemIdName == <<"p1", "p2", "p3", "p4", "p5">>
Contents   == {"hi", "yo"}
OwnerName  == [u \in UserIds |-> IF u = "u1" THEN "Alice" ELSE "Bob"]

OK_STATUS   == 200
FAIL_STATUS == 500
FAIL_BODY   == <<"Failed to create a new prompt">>

NullDoc   == [_id |-> "null", name |-> "null"]
NoResp    == [status |-> 0, body |-> <<>>]

OwnerDoc(u) == [_id |-> u, name |-> OwnerName[u]]

----------------------------------------------------------------------------
(* Prompt.find({}): the filter is dropped *)
Find_all(its, uid) == its

(* Prompt.find({ creator: id }): the matching Items, in store order *)
Find(its, uid) == SelectSeq(its, LAMBDA it : it.creator = uid)

(* .populate("creator"): the foreign key of each document is replaced by   *)
(* the Owner document it refers to, or by null when there is none          *)
Deref(ows, uid) ==
    IF \E o \in ows : o._id = uid
    THEN CHOOSE o \in ows : o._id = uid
    ELSE NullDoc

Populate(docs, ows) ==
    [k \in 1..Len(docs) |->
        [_id |-> docs[k]._id,
         creator |-> Deref(ows, docs[k].creator),
         content |-> docs[k].content]]

----------------------------------------------------------------------------
(* JSON.stringify(prompts): the JSON text, as a sequence of tokens *)
StringifyOwner(o) ==
    IF o = NullDoc THEN <<"null">>
    ELSE <<"{", "_id", ":", o._id, ",", "name", ":", o.name, "}">>

StringifyDoc(d) ==
    <<"{", "_id", ":", d._id, ",", "creator", ":">>
        \o StringifyOwner(d.creator)
        \o <<",", "content", ":", d.content, "}">>

RECURSIVE StringifyElems(_)
StringifyElems(docs) ==
    IF docs = <<>> THEN <<>>
    ELSE IF Len(docs) = 1 THEN StringifyDoc(docs[1])
    ELSE StringifyDoc(docs[1]) \o <<",">> \o StringifyElems(Tail(docs))

JSONstringify(docs) == <<"[">> \o StringifyElems(docs) \o <<"]">>

(* What a client recovers from the body: JSON.parse of the token text *)
RECURSIVE ParseElems(_)
ParseElems(t) ==
    IF t = <<>> THEN <<>>
    ELSE LET e == IF Head(t) = "," THEN Tail(t) ELSE t
             populated == e[8] = "{"
             n == IF populated THEN 21 ELSE 13
             cr == IF populated THEN [_id |-> e[11], name |-> e[15]]
                   ELSE NullDoc
             d == [_id |-> e[4], creator |-> cr, content |-> e[n - 1]]
         IN  <<d>> \o ParseElems(SubSeq(e, n + 1, Len(e)))

JSONparse(body) == ParseElems(SubSeq(body, 2, Len(body) - 1))

----------------------------------------------------------------------------
Init ==
    /\ items = << [_id |-> "p1", creator |-> "u1", content |-> "hi"],
                  [_id |-> "p2", creator |-> "u2", content |-> "yo"] >>
    /\ owners = {OwnerDoc("u1")}
    /\ isConnected = FALSE
    /\ nConns = 0
    /\ pc = [r \in Reqs |-> "idle"]
    /\ id = [r \in Reqs |-> "none"]
    /\ prompts = [r \in Reqs |-> <<>>]
    /\ resp = [r \in Reqs |-> NoResp]
    /\ hist = << [items |-> items, owners |-> owners] >>
    /\ qver = [r \in Reqs |-> 0]
    /\ acq = [r \in Reqs |-> "none"]
    /\ qres = [r \in Reqs |-> "none"]
    /\ issued = [r \in Reqs |-> 0]
    /\ nresp = [r \in Reqs |-> 0]

----------------------------------------------------------------------------
(* The environment: Items and Owners are created, changed and deleted      *)
(* outside the handler                                                     *)

Write(its, ows) ==
    /\ Len(hist) <= MaxWrites
    /\ items' = its
    /\ owners' = ows
    /\ hist' = Append(hist, [items |-> its, owners |-> ows])
    /\ UNCHANGED <<connVars, pc, id, prompts, resp, qver, acq, qres, issued, nresp>>

UsedIds == {items[i]._id : i \in 1..Len(items)}

FreshId ==
    ItemIdName[CHOOSE k \in 1..Len(ItemIdName) :
                  /\ ItemIdName[k] \notin UsedIds
                  /\ \A j \in 1..(k - 1) : ItemIdName[j] \in UsedIds]

CreateItem ==
    /\ Len(items) < MaxItems
    /\ \E u \in UserIds :
          Write(Append(items, [_id |-> FreshId, creator |-> u, content |-> "hi"]),
                owners)

UpdateItem ==
    \E i \in 1..Len(items), c \in Contents :
        /\ c # items[i].content
        /\ Write([items EXCEPT ![i].content = c], owners)

DeleteItem ==
    \E i \in 1..Len(items) :
        Write(SubSeq(items, 1, i - 1) \o SubSeq(items, i + 1, Len(items)), owners)

CreateOwner ==
    \E u \in UserIds :
        /\ \A o \in owners : o._id # u
        /\ Write(items, owners \cup {OwnerDoc(u)})

DeleteOwner ==
    \E o \in owners : Write(items, owners \ {o})

----------------------------------------------------------------------------
(* The handler *)

(* the host invokes GET(req, { params }) *)
Invoke(r) ==
    /\ pc[r] = "idle"
    /\ \E u \in UserIds :
          id' = [id EXCEPT ![r] = u]
    /\ pc' = [pc EXCEPT ![r] = "connect"]
    /\ UNCHANGED <<storeVars, connVars, prompts, resp, qver, acq, qres, issued, nresp>>

(* connectToDB(): idempotent acquire of the process-wide connection.  An   *)
(* established connection is reused: the call then succeeds and opens      *)
(* nothing.  Otherwise the attempt opens one connection (ok) or fails.     *)
connectToDB_dup(ok) ==
    IF ok
    THEN /\ isConnected' = TRUE
         /\ nConns' = nConns + 1
    ELSE UNCHANGED connVars

connectToDB(ok) ==
    IF isConnected
    THEN ok /\ UNCHANGED connVars
    ELSE IF ok
         THEN /\ isConnected' = TRUE
              /\ nConns' = nConns + 1
         ELSE UNCHANGED connVars

(* await connectToDB() resolves; Prompt.find(..).populate(..) is sent *)
ConnectOK(r) ==
    /\ pc[r] = "connect"
    /\ connectToDB(TRUE)
    /\ acq' = [acq EXCEPT ![r] = "ok"]
    /\ issued' = [issued EXCEPT ![r] = @ + 1]
    /\ pc' = [pc EXCEPT ![r] = "query"]
    /\ UNCHANGED <<storeVars, id, prompts, resp, qver, qres, nresp>>

(* catch (error): return new Response("Failed to create a new prompt", 500) *)
Catch_ok(r) ==
    /\ resp' = [resp EXCEPT ![r] = [status |-> OK_STATUS, body |-> <<"[", "]">>]]
    /\ nresp' = [nresp EXCEPT ![r] = @ + 1]
    /\ pc' = [pc EXCEPT ![r] = "done"]

Catch(r) ==
    /\ resp' = [resp EXCEPT ![r] = [status |-> FAIL_STATUS, body |-> FAIL_BODY]]
    /\ nresp' = [nresp EXCEPT ![r] = @ + 1]
    /\ pc' = [pc EXCEPT ![r] = "done"]

(* await connectToDB() rejects: the connection cannot be established *)
ConnectFail_fallthrough(r) ==
    /\ pc[r] = "connect"
    /\ connectToDB(FALSE)
    /\ acq' = [acq EXCEPT ![r] = "fail"]
    /\ issued' = [issued EXCEPT ![r] = @ + 1]
    /\ pc' = [pc EXCEPT ![r] = "query"]
    /\ UNCHANGED <<storeVars, id, prompts, resp, qver, qres, nresp>>

ConnectFail(r) ==
    /\ pc[r] = "connect"
    /\ connectToDB(FALSE)
    /\ acq' = [acq EXCEPT ![r] = "fail"]
    /\ qver' = [qver EXCEPT ![r] = Len(hist)]
    /\ Catch(r)
    /\ UNCHANGED <<storeVars, id, prompts, qres, issued>>

(* `prompts` kept in one module-level variable shared by all invocations *)
QueryOK_shared(r) ==
    /\ pc[r] = "query"
    /\ prompts' = [q \in Reqs |-> Populate(Find(items, id[r]), owners)]
    /\ qver' = [qver EXCEPT ![r] = Len(hist)]
    /\ qres' = [qres EXCEPT ![r] = "ok"]
    /\ pc' = [pc EXCEPT ![r] = "respond"]
    /\ UNCHANGED <<storeVars, connVars, id, resp, acq, issued, nresp>>

(* the result of an earlier invocation with the same id is kept and reused *)
QueryOK_cached(r) ==
    /\ pc[r] = "query"
    /\ \/ \E q \in Reqs \ {r} :
             /\ pc[q] = "done" /\ qres[q] = "ok" /\ id[q] = id[r]
             /\ prompts' = [prompts EXCEPT ![r] = prompts[q]]
       \/ /\ \A q \in Reqs \ {r} :
                ~(pc[q] = "done" /\ qres[q] = "ok" /\ id[q] = id[r])
          /\ prompts' = [prompts EXCEPT ![r] = Populate(Find(items, id[r]), owners)]
    /\ qver' = [qver EXCEPT ![r] = Len(hist)]
    /\ qres' = [qres EXCEPT ![r] = "ok"]
    /\ pc' = [pc EXCEPT ![r] = "respond"]
    /\ UNCHANGED <<storeVars, connVars, id, resp, acq, issued, nresp>>

(* the cursor is cut short: any prefix of the matching documents comes back *)
QueryOK_partial(r) ==
    /\ pc[r] = "query"
    /\ \E n \in 0..Len(Find(items, id[r])) :
          prompts' = [prompts EXCEPT ![r] =
                         Populate(SubSeq(Find(items, id[r]), 1, n), owners)]
    /\ qver' = [qver EXCEPT ![r] = Len(hist)]
    /\ qres' = [qres EXCEPT ![r] = "ok"]
    /\ pc' = [pc EXCEPT ![r] = "respond"]
    /\ UNCHANGED <<storeVars, connVars, id, resp, acq, issued, nresp>>

(* a write path: the documents read are removed from the collection *)
QueryOK_consume(r) ==
    /\ pc[r] = "query"
    /\ prompts' = [prompts EXCEPT ![r] = Populate(Find(items, id[r]), owners)]
    /\ items' = SelectSeq(items, LAMBDA it : it.creator # id[r])
    /\ qver' = [qver EXCEPT ![r] = Len(hist)]
    /\ qres' = [qres EXCEPT ![r] = "ok"]
    /\ pc' = [pc EXCEPT ![r] = "respond"]
    /\ UNCHANGED <<owners, hist, connVars, id, resp, acq, issued, nresp>>

(* the store runs the query; the await resolves with the documents *)
QueryOK(r) ==
    /\ pc[r] = "query"
    /\ prompts' = [prompts EXCEPT ![r] = Populate(Find(items, id[r]), owners)]
    /\ qver' = [qver EXCEPT ![r] = Len(hist)]
    /\ qres' = [qres EXCEPT ![r] = "ok"]
    /\ pc' = [pc EXCEPT ![r] = "respond"]
    /\ UNCHANGED <<storeVars, connVars, id, resp, acq, issued, nresp>>

(* no try/catch around the query: the rejection reaches the host *)
QueryFail_propagate(r) ==
    /\ pc[r] = "query"
    /\ qver' = [qver EXCEPT ![r] = Len(hist)]
    /\ qres' = [qres EXCEPT ![r] = "fail"]
    /\ pc' = [pc EXCEPT ![r] = "threw"]
    /\ UNCHANGED <<storeVars, connVars, id, prompts, resp, acq, issued, nresp>>

(* find or populate fails; the await rejects *)
QueryFail(r) ==
    /\ pc[r] = "query"
    /\ qver' = [qver EXCEPT ![r] = Len(hist)]
    /\ qres' = [qres EXCEPT ![r] = "fail"]
    /\ Catch(r)
    /\ UNCHANGED <<storeVars, connVars, id, prompts, acq, issued>>

(* an empty result is reported as a failure *)
Respond_notfound(r) ==
    /\ pc[r] = "respond"
    /\ resp' = [resp EXCEPT ![r] =
                   IF prompts[r] = <<>>
                   THEN [status |-> FAIL_STATUS, body |-> FAIL_BODY]
                   ELSE [status |-> OK_STATUS, body |-> JSONstringify(prompts[r])]]
    /\ nresp' = [nresp EXCEPT ![r] = @ + 1]
    /\ pc' = [pc EXCEPT ![r] = "done"]
    /\ UNCHANGED <<storeVars, connVars, id, prompts, qver, acq, qres, issued>>

(* return new Response(JSON.stringify(prompts), { status: 200 }) *)
Respond(r) ==
    /\ pc[r] = "respond"
    /\ resp' = [resp EXCEPT ![r] = [status |-> OK_STATUS,
                                    body |-> JSONstringify(prompts[r])]]
    /\ nresp' = [nresp EXCEPT ![r] = @ + 1]
    /\ pc' = [pc EXCEPT ![r] = "done"]
    /\ UNCHANGED <<storeVars, connVars, id, prompts, qver, acq, qres, issued>>

(* the invocation is over; the slot serves the next request *)
Finish(r) ==
    /\ pc[r] = "done"
    /\ pc' = [pc EXCEPT ![r] = "idle"]
    /\ id' = [id EXCEPT ![r] = "none"]
    /\ prompts' = [prompts EXCEPT ![r] = <<>>]
    /\ resp' = [resp EXCEPT ![r] = NoResp]
    /\ qver' = [qver EXCEPT ![r] = 0]
    /\ acq' = [acq EXCEPT ![r] = "none"]
    /\ qres' = [qres EXCEPT ![r] = "none"]
    /\ issued' = [issued EXCEPT ![r] = 0]
    /\ nresp' = [nresp EXCEPT ![r] = 0]
    /\ UNCHANGED <<storeVars, connVars>>

Step(r) ==
    \/ Invoke(r)
    \/ ConnectOK(r)
    \/ ConnectFail(r)
    \/ QueryOK(r)
    \/ QueryFail(r)
    \/ Respond(r)
    \/ Finish(r)

Next ==
    \/ CreateItem
    \/ UpdateItem
    \/ DeleteItem
    \/ CreateOwner
    \/ DeleteOwner
    \/ \E r \in Reqs : Step(r)

Spec == Init /\ [][Next]_vars

----------------------------------------------------------------------------
(* Properties *)

Succeeded(r) == pc[r] = "done" /\ acq[r] = "ok" /\ qres[r] = "ok"

(* the store content r's query read *)
StoreAt(r) == hist[qver[r]]

(* positions of the Items of `its` whose creator foreign key is uid *)
Matching(its, uid) == {i \in 1..Len(its) : its[i].creator = uid}

HasOwner(ows, uid) == \E o \in ows : o._id = uid

(* C1: an invocation for id whose connect and query succeed returns 200    *)
(* with a JSON array holding exactly the N Items of the store whose        *)
(* creator is id, none missing and none of another owner; when id          *)
(* identifies an Owner of the store, every element's creator field is that *)
(* Owner's document.                                                       *)
C1_PopulatedResult ==
    \A r \in Reqs :
        Succeeded(r) =>
            LET st   == StoreAt(r)
                m    == Matching(st.items, id[r])
                body == resp[r].body
                docs == JSONparse(body)
            IN  /\ resp[r].status = 200
                /\ body[1] = "[" /\ body[Len(body)] = "]"
                /\ Len(docs) = Cardinality(m)
                /\ {docs[k]._id : k \in 1..Len(docs)} = {st.items[i]._id : i \in m}
                /\ HasOwner(st.owners, id[r]) =>
                      \A k \in 1..Len(docs) :
                          /\ docs[k].creator \in st.owners
                          /\ docs[k].creator._id = id[r]

C1_Witness ==
    \E r \in Reqs :
        /\ Succeeded(r)
        /\ Cardinality(Matching(StoreAt(r).items, id[r])) = 2
        /\ Len(StoreAt(r).items) = 3
        /\ HasOwner(StoreAt(r).owners, id[r])

(* C2: an invocation whose connection cannot be established returns 500   *)
(* with the fixed body, whatever id and the store are; never 200.          *)
C2_ConnectFailure ==
    \A r \in Reqs :
        acq[r] = "fail" =>
            /\ pc[r] = "done"
            /\ resp[r].status = 500
            /\ resp[r].status # 200
            /\ resp[r].body = <<"Failed to create a new prompt">>

C2_Witness ==
    \E r1, r2 \in Reqs :
        /\ acq[r1] = "fail" /\ acq[r2] = "fail"
        /\ id[r1] # id[r2]
        /\ qver[r1] # qver[r2]

(* every value that is Item data in some store content of the history *)
ItemData ==
    UNION { UNION {{h.items[i]._id, h.items[i].content} : i \in 1..Len(h.items)} :
              h \in {hist[v] : v \in 1..Len(hist)}}

(* C3: an invocation whose connection succeeds and whose query fails       *)
(* returns 500 with the fixed body, which holds no Item data; the failure  *)
(* does not leave the handler as an exception.                             *)
C3_QueryFailure ==
    \A r \in Reqs :
        /\ pc[r] # "threw"
        /\ qres[r] = "fail" =>
              /\ acq[r] = "ok"
              /\ pc[r] = "done"
              /\ resp[r].status = 500
              /\ resp[r].body = <<"Failed to create a new prompt">>
              /\ \A k \in 1..Len(resp[r].body) : resp[r].body[k] \notin ItemData

C3_Witness ==
    \E r \in Reqs :
        /\ qres[r] = "fail"
        /\ Matching(StoreAt(r).items, id[r]) # {}

(* C4: an invocation for an id matching no Item, whose connect and query   *)
(* succeed, returns 200 with the empty JSON array, also when no Owner has  *)
(* that id.                                                                *)
C4_ZeroMatches ==
    \A r \in Reqs :
        (Succeeded(r) /\ Matching(StoreAt(r).items, id[r]) = {}) =>
            /\ resp[r].status = 200
            /\ resp[r].body = <<"[", "]">>
            /\ JSONparse(resp[r].body) = <<>>

C4_Witness ==
    \E r \in Reqs :
        /\ Succeeded(r)
        /\ Matching(StoreAt(r).items, id[r]) = {}
        /\ ~HasOwner(StoreAt(r).owners, id[r])
        /\ StoreAt(r).items # <<>>

(* C5 as stated: two invocations with the same id against the same store   *)
(* content return identical responses, status and body.                    *)
C5_IdenticalResponses ==
    \A r1, r2 \in Reqs :
        (/\ pc[r1] = "done" /\ pc[r2] = "done"
         /\ id[r1] = id[r2]
         /\ qver[r1] = qver[r2]) =>
            resp[r1] = resp[r2]

(* C5 amended: two invocations with the same id against the same store     *)
(* content, whose connect and query steps both succeed, return identical   *)
(* responses (status 200 and the same body).                               *)
C5_IdenticalWhenSucceeded ==
    \A r1, r2 \in Reqs :
        (/\ Succeeded(r1) /\ Succeeded(r2)
         /\ id[r1] = id[r2]
         /\ qver[r1] = qver[r2]) =>
            resp[r1] = resp[r2]

C5_Witness ==
    \E r1, r2 \in Reqs :
        /\ r1 # r2
        /\ Succeeded(r1) /\ Succeeded(r2)
        /\ id[r1] = id[r2]
        /\ qver[r1] = qver[r2]
        /\ Len(JSONparse(resp[r1].body)) = 2

(* the response of an invocation for uid that runs alone against store st, *)
(* with connect outcome a and query outcome q                              *)
Alone(uid, st, a, q) ==
    IF a = "ok" /\ q = "ok"
    THEN [status |-> 200,
          body |-> JSONstringify(Populate(Find(st.items, uid), st.owners))]
    ELSE [status |-> 500, body |-> <<"Failed to create a new prompt">>]

(* C6: under every interleaving, the response of each invocation is the    *)
(* one it produces alone against the store it read, and an invocation in   *)
(* flight can always take its next step, whatever the others are doing.    *)
C6_NonInterference ==
    \A r \in Reqs :
        /\ pc[r] = "done" => resp[r] = Alone(id[r], StoreAt(r), acq[r], qres[r])
        /\ pc[r] = "connect" => ENABLED (ConnectOK(r) \/ ConnectFail(r))
        /\ pc[r] = "query" => ENABLED QueryOK(r)
        /\ pc[r] = "respond" => ENABLED Respond(r)

C6_Witness ==
    \E r1, r2 \in Reqs :
        /\ Succeeded(r1)
        /\ pc[r2] = "respond"
        /\ id[r1] # id[r2]
        /\ prompts[r1] # <<>> /\ prompts[r2] # <<>>
        /\ qver[r2] <= qver[r1]

(* C7: a step of the handler leaves the Items and Owners of the store      *)
(* unchanged, and changes the connection only in the connect step.         *)
C7_ReadOnly ==
    [][pc' # pc =>
          /\ items' = items
          /\ owners' = owners
          /\ <<isConnected, nConns>>' # <<isConnected, nConns>> =>
                \E r \in Reqs : pc[r] = "connect" /\ pc'[r] = "query"]_vars

C7_Witness ==
    /\ \E r \in Reqs : Succeeded(r)
    /\ \E r \in Reqs : pc[r] = "done" /\ qres[r] = "fail"
    /\ Len(hist) = 1
    /\ Len(items) = 2

(* C8: acquiring the connection when one is established raises no error    *)
(* and opens no second connection; at most one connection ever exists.     *)
C8_IdempotentConnect ==
    /\ nConns <= 1
    /\ isConnected <=> nConns = 1
    /\ \A r \in Reqs :
          (isConnected /\ pc[r] = "connect") =>
              /\ ~ENABLED ConnectFail(r)
              /\ ENABLED ConnectOK(r)

C8_Witness ==
    /\ isConnected
    /\ \A r \in Reqs : pc[r] = "query"

(* C9: the documents of a 200 response are those of the store content at   *)
(* the time of the invocation's own query: same Items, same content, and   *)
(* each creator dereferenced in that content's Owners.                     *)
C9_LiveStore ==
    \A r \in Reqs :
        Succeeded(r) =>
            LET st   == StoreAt(r)
                m    == Matching(st.items, id[r])
                docs == JSONparse(resp[r].body)
            IN  /\ qver[r] \in 1..Len(hist)
                /\ Len(docs) = Cardinality(m)
                /\ \A k \in 1..Len(docs) :
                      \E i \in m :
                          /\ docs[k]._id = st.items[i]._id
                          /\ docs[k].content = st.items[i].content
                          /\ IF HasOwner(st.owners, id[r])
                             THEN docs[k].creator \in st.owners
                             ELSE docs[k].creator = NullDoc

C9_Witness ==
    \E r1, r2 \in Reqs :
        /\ Succeeded(r1) /\ Succeeded(r2)
        /\ id[r1] = id[r2]
        /\ qver[r1] < qver[r2]
        /\ resp[r1].body # resp[r2].body

(* C10: an invocation sends its query only after its connect succeeded,    *)
(* sends none when its connect failed, and at its end has returned exactly *)
(* one response, of status 200 or 500.                                     *)
C10_QueryAfterConnect ==
    \A r \in Reqs :
        /\ issued[r] <= 1
        /\ issued[r] = 1 <=> acq[r] = "ok"
        /\ qres[r] # "none" => issued[r] = 1
        /\ acq[r] = "fail" => (issued[r] = 0 /\ qres[r] = "none")
        /\ pc[r] = "done" => (nresp[r] = 1 /\ resp[r].status \in {200, 500})
        /\ pc[r] # "done" => nresp[r] = 0

C10_Witness ==
    \E r1, r2 \in Reqs :
        /\ pc[r1] = "done" /\ acq[r1] = "fail"
        /\ Succeeded(r2)
====
